---- MODULE Spec2Model ----
(***************************************************************************)
(* Model of satellite_utils.py: the bounding box around a point, the box   *)
(* rescaled to a pixel grid, the time interval of an image request and the *)
(* pixel mask of a field.  Each function is one call of a small state      *)
(* machine: from the idle state a function is called on inputs drawn from  *)
(* sample sets, the state then holds the call, its arguments and what it   *)
(* returned, and Return goes back to idle.                                 *)
(*                                                                         *)
(* Numbers.  The program computes in binary floating point.  The model     *)
(* computes in exact rationals <<n, d>> (d > 0, lowest terms), so rounding *)
(* in the last place is not modelled.  A coordinate returned by            *)
(* get_square_around_point is a record [inf, hi, lo]: the value            *)
(* lo + hi * 10^16, or an infinity when inf is 1 or -1; the hi part is     *)
(* only used at the poles, where the cosine is of the order of 10^-16.     *)
(***************************************************************************)
EXTENDS Integers, Sequences, FiniteSets, TLC

VARIABLES op, args, ret

vars == <<op, args, ret>>

(***************************************************************************)
(* Exact rational arithmetic                                               *)
(***************************************************************************)
Abs(x) == IF x < 0 THEN -x ELSE x

RECURSIVE Gcd(_, _)
Gcd(a, b) == IF b = 0 THEN a ELSE Gcd(b, a % b)

Lcm(a, b) == (a \div Gcd(a, b)) * b

Norm(n, d) ==
    LET g == Gcd(Abs(n), Abs(d))
        s == IF d < 0 THEN -1 ELSE 1
    IN  <<(s * n) \div g, (s * d) \div g>>

R(n) == <<n, 1>>

Zero == <<0, 1>>

RNeg(a) == <<-a[1], a[2]>>

RAdd(a, b) ==
    LET l == Lcm(a[2], b[2])
    IN  Norm(a[1] * (l \div a[2]) + b[1] * (l \div b[2]), l)

RSub(a, b) == RAdd(a, RNeg(b))

RMul(a, b) ==
    LET g1 == Gcd(Abs(a[1]), b[2])
        g2 == Gcd(Abs(b[1]), a[2])
    IN  Norm((a[1] \div g1) * (b[1] \div g2), (a[2] \div g2) * (b[2] \div g1))

\* a / b for b # 0
RDiv(a, b) ==
    RMul(a, IF b[1] > 0 THEN <<b[2], b[1]>> ELSE <<-b[2], -b[1]>>)

RLess(a, b) ==
    LET l == Lcm(a[2], b[2])
    IN  a[1] * (l \div a[2]) < b[1] * (l \div b[2])

RLeq(a, b) == a = b \/ RLess(a, b)

(***************************************************************************)
(* Floating-point values of get_square_around_point                        *)
(***************************************************************************)
Fin(hi, lo) == [inf |-> 0, hi |-> hi, lo |-> lo]

Inf(s) == [inf |-> s, hi |-> Zero, lo |-> Zero]

IsFinite(x) == x.inf = 0

\* lon - d and lon + d for a finite rational lon: an infinite d wins.
FSubFrom(lon, d) ==
    IF d.inf # 0 THEN Inf(-d.inf) ELSE Fin(RNeg(d.hi), RSub(lon, d.lo))

FAddTo(lon, d) ==
    IF d.inf # 0 THEN Inf(d.inf) ELSE Fin(d.hi, RAdd(lon, d.lo))

FLess(x, y) ==
    IF x.inf # 0 \/ y.inf # 0
    THEN x.inf < y.inf
    ELSE RLess(x.hi, y.hi) \/ (x.hi = y.hi /\ RLess(x.lo, y.lo))

\* (x + y) / 2 of two finite values
FMid(x, y) ==
    Fin(RDiv(RAdd(x.hi, y.hi), R(2)), RDiv(RAdd(x.lo, y.lo), R(2)))

(***************************************************************************)
(* get_square_around_point                                                 *)
(***************************************************************************)
m_to_deg == 111111

\* np.cos(np.deg2rad(lat)) as mant * 10^(16 * exp).  At 0 and +-60 degrees the
\* cosine is 1 and 1/2; at +-37 and +-53 degrees it is kept to two digits
\* (0.80 and 0.60).  At +-90 degrees numpy returns 6.123233995736766e-17, the
\* cosine of the double nearest pi/2, which is positive and not zero; it is
\* kept to four digits as 0.6123 * 10^-16.
NpCosZeroAtPole(lat) ==
    CASE lat = 0                 -> [mant |-> <<1, 1>>, exp |-> 0]
      [] lat \in {-37, 37}       -> [mant |-> <<4, 5>>, exp |-> 0]
      [] lat \in {-53, 53}       -> [mant |-> <<3, 5>>, exp |-> 0]
      [] lat \in {-60, 60}       -> [mant |-> <<1, 2>>, exp |-> 0]
      [] lat \in {-90, 90}       -> [mant |-> Zero, exp |-> 0]

NpCos(lat) ==
    CASE lat = 0                 -> [mant |-> <<1, 1>>, exp |-> 0]
      [] lat \in {-37, 37}       -> [mant |-> <<4, 5>>, exp |-> 0]
      [] lat \in {-53, 53}       -> [mant |-> <<3, 5>>, exp |-> 0]
      [] lat \in {-60, 60}       -> [mant |-> <<1, 2>>, exp |-> 0]
      [] lat \in {-90, 90}       -> [mant |-> <<6123, 10000>>, exp |-> -1]

\* m_to_deg * np.cos(...): an integer times a numpy double
NpScale(k, c) == [mant |-> RMul(R(k), c.mant), exp |-> c.exp]

\* a / s for a Python float a > 0 and a numpy double s.  The division is
\* numpy's: a zero divisor gives inf (and a RuntimeWarning), never an exception.
NpTrueDivide(a, s) ==
    IF s.mant = Zero THEN Inf(1)
    ELSE IF s.exp = 0 THEN Fin(Zero, RDiv(a, s.mant))
    ELSE Fin(RDiv(a, s.mant), Zero)

\* a / b for a Python float a and a Python int b: ZeroDivisionError when b = 0.
PyDivRaises(b) == b = 0

get_square_around_point_full_side(lon, lat, m) ==
    LET half_side == R(m)
        dx == NpTrueDivide(half_side, NpScale(m_to_deg, NpCos(lat)))
        dy == Fin(Zero, RDiv(half_side, R(m_to_deg)))
    IN  IF PyDivRaises(m_to_deg)
        THEN [exc |-> "ZeroDivisionError", val |-> <<>>]
        ELSE [exc |-> "none",
              val |-> <<FSubFrom(R(lon), dx), FSubFrom(R(lat), dy),
                        FAddTo(R(lon), dx), FAddTo(R(lat), dy)>>]

get_square_around_point_max_is_min(lon, lat, m) ==
    LET half_side == RDiv(R(m), R(2))
        dx == NpTrueDivide(half_side, NpScale(m_to_deg, NpCos(lat)))
        dy == Fin(Zero, RDiv(half_side, R(m_to_deg)))
    IN  IF PyDivRaises(m_to_deg)
        THEN [exc |-> "ZeroDivisionError", val |-> <<>>]
        ELSE [exc |-> "none",
              val |-> <<FSubFrom(R(lon), dx), FSubFrom(R(lat), dy),
                        FSubFrom(R(lon), dx), FAddTo(R(lat), dy)>>]

get_square_around_point(lon, lat, m) ==
    LET half_side == RDiv(R(m), R(2))
        dx == NpTrueDivide(half_side, NpScale(m_to_deg, NpCos(lat)))
        dy == Fin(Zero, RDiv(half_side, R(m_to_deg)))
    IN  IF PyDivRaises(m_to_deg)
        THEN [exc |-> "ZeroDivisionError", val |-> <<>>]
        ELSE [exc |-> "none",
              val |-> <<FSubFrom(R(lon), dx), FSubFrom(R(lat), dy),
                        FAddTo(R(lon), dx), FAddTo(R(lat), dy)>>]

\* Sample inputs: longitudes in [-180, 180), the latitudes NpCos tabulates,
\* side lengths in meters.
Lons == {-180, -3, 0, 100, 179}

Lats == {-90, -60, -37, 0, 37, 53, 60, 90}

Sides == {1, 7, 50, 5000, 111111}

CallSquare ==
    /\ op = "idle"
    /\ \E lon \in Lons, lat \in Lats, m \in Sides :
          /\ op' = "get_square_around_point"
          /\ args' = [lon |-> lon, lat |-> lat, m |-> m]
          /\ ret' = get_square_around_point(lon, lat, m)

(***************************************************************************)
(* get_bbox_of_given_size                                                  *)
(***************************************************************************)
\* Python's round(q) of a rational q >= 0: to the nearest integer, ties to even.
PyRound(q) ==
    LET f == q[1] \div q[2]
        r == q[1] - f * q[2]
    IN  IF 2 * r < q[2] THEN f
        ELSE IF 2 * r > q[2] THEN f + 1
        ELSE IF f % 2 = 0 THEN f ELSE f + 1

CeilOf(q) == IF q[1] % q[2] = 0 THEN q[1] \div q[2] ELSE (q[1] \div q[2]) + 1

\* The pixel count of an extent (degrees) at a resolution (meters), one axis.
\* "round" is sentinelhub's bbox_to_dimensions, round(extent in meters /
\* resolution), with the projection to meters taken as m_to_deg meters per
\* degree; "ceil" is another deterministic, monotonic dimension function.
PixelsOf(fn, extent, resolution) ==
    LET q == RDiv(RMul(extent, R(m_to_deg)), R(resolution))
    IN  IF fn = "round" THEN PyRound(q) ELSE CeilOf(q)

bbox_to_dimensions(fn, box, resolution) ==
    <<PixelsOf(fn, RSub(box[3], box[1]), resolution),
      PixelsOf(fn, RSub(box[4], box[2]), resolution)>>

get_bbox_of_given_size_same_pix(fn, coords, pix, resolution) ==
    LET x_min == coords[1]
        y_min == coords[2]
        x_max == coords[3]
        y_max == coords[4]
        box_size == bbox_to_dimensions(fn, coords, resolution)
    IN  IF box_size = pix
        THEN coords
        ELSE <<x_min, y_min,
               RAdd(RDiv(RMul(RSub(x_max, x_min), R(pix[1])), R(box_size[1])), x_min),
               RAdd(RDiv(RMul(RSub(y_max, y_min), R(pix[1])), R(box_size[2])), y_min)>>

get_bbox_of_given_size(fn, coords, pix, resolution) ==
    LET x_min == coords[1]
        y_min == coords[2]
        x_max == coords[3]
        y_max == coords[4]
        box_size == bbox_to_dimensions(fn, coords, resolution)
    IN  IF box_size = pix
        THEN coords
        ELSE <<x_min, y_min,
               RAdd(RDiv(RMul(RSub(x_max, x_min), R(pix[1])), R(box_size[1])), x_min),
               RAdd(RDiv(RMul(RSub(y_max, y_min), R(pix[2])), R(box_size[2])), y_min)>>

\* Sample inputs: the lower-left corner in degrees, the two extents in meters
\* (extent / m_to_deg degrees), the target grid, the resolution.
MaxPix == 3

Corners == {<<0, 0>>, <<-3, 41>>}

Extents == {10, 24, 25, 36, 50}

Resolutions == {10, 20}

DimFns == {"round", "ceil"}

CoordsOf(c, ex, ey) ==
    <<R(c[1]), R(c[2]),
      RAdd(R(c[1]), Norm(ex, m_to_deg)), RAdd(R(c[2]), Norm(ey, m_to_deg))>>

\* The dimension function returns positive integers: a box of zero pixels is
\* not an input.
CallBBox ==
    /\ op = "idle"
    /\ \E c \in Corners, ex \in Extents, ey \in Extents, fn \in DimFns,
          px \in 1..MaxPix, py \in 1..MaxPix, res \in Resolutions :
          LET coords == CoordsOf(c, ex, ey)
              nat == bbox_to_dimensions(fn, coords, res)
          IN  /\ nat[1] >= 1
              /\ nat[2] >= 1
              /\ op' = "get_bbox_of_given_size"
              /\ args' = [fn |-> fn, coords |-> coords, pix |-> <<px, py>>,
                          resolution |-> res]
              /\ ret' = get_bbox_of_given_size(fn, coords, <<px, py>>, res)

(***************************************************************************)
(* get_request_for_saving_picture                                          *)
(***************************************************************************)
IsLeap(y) == (y % 4 = 0 /\ y % 100 # 0) \/ y % 400 = 0

DaysInMonth(y, m) ==
    CASE m \in {1, 3, 5, 7, 8, 10, 12} -> 31
      [] m \in {4, 6, 9, 11}           -> 30
      [] m = 2                         -> IF IsLeap(y) THEN 29 ELSE 28

RECURSIVE DaysBeforeMonth(_, _)
DaysBeforeMonth(y, m) ==
    IF m = 1 THEN 0 ELSE DaysBeforeMonth(y, m - 1) + DaysInMonth(y, m - 1)

DaysBeforeYear(y) ==
    (y - 1) * 365 + ((y - 1) \div 4) - ((y - 1) \div 100) + ((y - 1) \div 400)

\* date.toordinal() of a date <<year, month, day>>
ToOrdinal(d) == DaysBeforeYear(d[1]) + DaysBeforeMonth(d[1], d[2]) + d[3]

Years == {2019, 2020, 2021}

Calendar ==
    {d \in Years \X (1..12) \X (1..31) : d[3] <= DaysInMonth(d[1], d[2])}

FromOrdinal(n) == CHOOSE d \in Calendar : ToOrdinal(d) = n

\* date + k * one_day
AddDays(d, k) == FromOrdinal(ToOrdinal(d) + k)

\* str(date).split()[0]: 'YYYY-MM-DD', as its eight digits (the dashes stand at
\* the same places in every date and are left out).
IsoDate(d) ==
    <<d[1] \div 1000, (d[1] \div 100) % 10, (d[1] \div 10) % 10, d[1] % 10,
      d[2] \div 10, d[2] % 10, d[3] \div 10, d[3] % 10>>

TimeInterval(date, time, interval) ==
    IF time = "now"
    THEN IF interval = 1
         THEN <<IsoDate(date), IsoDate(AddDays(date, 1))>>
         ELSE IF interval % 2 = 0
         THEN <<IsoDate(AddDays(date, -(interval \div 2))),
                IsoDate(AddDays(date, (interval + 1) \div 2))>>
         ELSE <<IsoDate(AddDays(date, -(interval \div 2))),
                IsoDate(AddDays(date, interval \div 2))>>
    ELSE IF time = "after"
    THEN <<IsoDate(AddDays(date, 1)), IsoDate(AddDays(date, interval))>>
    ELSE <<IsoDate(AddDays(date, -1)), IsoDate(AddDays(date, -interval))>>

\* The request: the time interval is the only part the function computes; box,
\* size, folder, evalscript and config are handed on as they are.
get_request_for_saving_picture(date, time, interval) ==
    [time_interval |-> TimeInterval(date, time, interval)]

MaxInterval == 6

Dates == {<<2019, 12, 30>>, <<2020, 1, 1>>, <<2020, 2, 27>>, <<2020, 3, 2>>,
          <<2020, 7, 15>>}

Times == {"now", "after", "before"}

CallRequest ==
    /\ op = "idle"
    /\ \E date \in Dates, time \in Times, interval \in 1..MaxInterval :
          /\ op' = "get_request_for_saving_picture"
          /\ args' = [date |-> date, time |-> time, interval |-> interval]
          /\ ret' = get_request_for_saving_picture(date, time, interval)

(***************************************************************************)
(* get_field_pixels                                                        *)
(***************************************************************************)
\* A point is <<x, y>> with rational coordinates; a polygon is the sequence of
\* its integer vertices, closed from the last to the first; a bbox is
\* <<min_x, min_y, max_x, max_y>> in integers.

\* The sign of (b - a) x (p - a)
Cross(a, b, p) ==
    RSub(RMul(R(b[1] - a[1]), RSub(p[2], R(a[2]))),
         RMul(R(b[2] - a[2]), RSub(p[1], R(a[1]))))

Between(u, v, w) == (RLeq(u, w) /\ RLeq(w, v)) \/ (RLeq(v, w) /\ RLeq(w, u))

OnSegment(a, b, p) ==
    /\ Cross(a, b, p) = Zero
    /\ Between(R(a[1]), R(b[1]), p[1])
    /\ Between(R(a[2]), R(b[2]), p[2])

EdgeEnd(field, k) == field[(k % Len(field)) + 1]

\* The edge from a to b crosses the ray that leaves p towards larger x.
CrossesRay(a, b, p) ==
    /\ RLess(p[2], R(a[2])) # RLess(p[2], R(b[2]))
    /\ RLess(p[1],
             RAdd(R(a[1]),
                  RDiv(RMul(RSub(p[2], R(a[2])), R(b[1] - a[1])), R(b[2] - a[2]))))

OnBoundary(field, p) ==
    \E k \in 1..Len(field) : OnSegment(field[k], EdgeEnd(field, k), p)

\* field.contains(Point(x, y)): the point lies in the interior of the polygon;
\* a point of the boundary is not contained.
Contains(field, p) ==
    /\ ~OnBoundary(field, p)
    /\ Cardinality({k \in 1..Len(field) :
                       CrossesRay(field[k], EdgeEnd(field, k), p)}) % 2 = 1

PixelCentreCorner(bbox, n_x, n_y, i, j) ==
    LET x_len == bbox[3] - bbox[1]
        y_len == bbox[4] - bbox[2]
    IN  <<RAdd(R(bbox[1]), RDiv(R((2 * i) * x_len), R(2 * n_x))),
          RAdd(R(bbox[2]), RDiv(R((2 * j) * y_len), R(2 * n_y)))>>

PixelCentreWholeStep(bbox, n_x, n_y, i, j) ==
    LET x_len == bbox[3] - bbox[1]
        y_len == bbox[4] - bbox[2]
    IN  <<RAdd(R(bbox[1]), RDiv(R((2 * i + 1) * x_len), R(n_x))),
          RAdd(R(bbox[2]), RDiv(R((2 * j + 1) * y_len), R(n_y)))>>

PixelCentreRowIsLatitude(bbox, n_x, n_y, i, j) ==
    LET x_len == bbox[3] - bbox[1]
        y_len == bbox[4] - bbox[2]
    IN  <<RAdd(R(bbox[1]), RDiv(R((2 * j + 1) * x_len), R(2 * n_y))),
          RAdd(R(bbox[2]), RDiv(R((2 * i + 1) * y_len), R(2 * n_x)))>>

\* The point sampled for pixel (i, j): x from the row index i, y from the
\* column index j.
PixelCentre(bbox, n_x, n_y, i, j) ==
    LET x_len == bbox[3] - bbox[1]
        y_len == bbox[4] - bbox[2]
    IN  <<RAdd(R(bbox[1]), RDiv(R((2 * i + 1) * x_len), R(2 * n_x))),
          RAdd(R(bbox[2]), RDiv(R((2 * j + 1) * y_len), R(2 * n_y)))>>

\* The mask: its shape is the first two dimensions of the image, whatever the
\* rest of img.shape is.
get_field_pixels(img_shape, bbox, field) ==
    LET n_x == img_shape[1]
        n_y == img_shape[2]
    IN  [shape |-> <<n_x, n_y>>,
         mask  |-> [q \in (0..(n_x - 1)) \X (0..(n_y - 1)) |->
                       Contains(field, PixelCentre(bbox, n_x, n_y, q[1], q[2]))]]

\* Sample inputs.
MaxRows == 3

MaxCols == 3

ImgShapes ==
    ((0..MaxRows) \X (0..MaxCols)) \cup ((0..MaxRows) \X (0..MaxCols) \X {3})

\* <<2, 2, 2, 6>> is degenerate: min_x = max_x.
BBoxes == {<<0, 0, 4, 4>>, <<0, 0, 6, 2>>, <<1, 1, 3, 5>>, <<2, 2, 2, 6>>,
           <<-2, -1, 2, 3>>}

CoverCCW(b) == <<<<b[1], b[2]>>, <<b[3], b[2]>>, <<b[3], b[4]>>, <<b[1], b[4]>>>>

CoverCW(b) == <<<<b[1], b[2]>>, <<b[1], b[4]>>, <<b[3], b[4]>>, <<b[3], b[2]>>>>

Triangle == <<<<0, 0>>, <<4, 0>>, <<0, 4>>>>

InnerSquare == <<<<1, 1>>, <<3, 1>>, <<3, 3>>, <<1, 3>>>>

FarSquare == <<<<10, 10>>, <<12, 10>>, <<12, 12>>, <<10, 12>>>>

RightBlock == <<<<7, -1>>, <<11, -1>>, <<11, 9>>, <<7, 9>>>>

\* A U open to the top whose hollow is -1 < x < 5, y > -1.
UShape == <<<<-2, -2>>, <<6, -2>>, <<6, 6>>, <<5, 6>>, <<5, -1>>, <<-1, -1>>,
            <<-1, 6>>, <<-2, 6>>>>

Fields == {Triangle, InnerSquare, FarSquare, RightBlock, UShape}

CallFieldPixels ==
    /\ op = "idle"
    /\ \E img_shape \in ImgShapes, bbox \in BBoxes :
          \E field \in Fields \cup {CoverCCW(bbox), CoverCW(bbox)} :
             /\ op' = "get_field_pixels"
             /\ args' = [img_shape |-> img_shape, bbox |-> bbox, field |-> field]
             /\ ret' = get_field_pixels(img_shape, bbox, field)

(***************************************************************************)
(* The state machine                                                       *)
(***************************************************************************)
NoValue == [none |-> TRUE]

Init ==
    /\ op = "idle"
    /\ args = NoValue
    /\ ret = NoValue

Return ==
    /\ op # "idle"
    /\ op' = "idle"
    /\ args' = NoValue
    /\ ret' = NoValue

Next ==
    \/ CallSquare
    \/ CallBBox
    \/ CallRequest
    \/ CallFieldPixels
    \/ Return

Spec == Init /\ [][Next]_vars

(***************************************************************************)
(* Properties                                                              *)
(***************************************************************************)
Half == <<1, 2>>

AtPole == op = "get_square_around_point" /\ args.lat \in {-90, 90}

OffPole == op = "get_square_around_point" /\ args.lat \notin {-90, 90}

\* C1: away from the poles and for a positive side, get_square_around_point
\* returns [min_lon, min_lat, max_lon, max_lat] with min_lon < max_lon and
\* min_lat < max_lat, and the midpoint of the box on each axis is the input
\* longitude and latitude.
C1_SquareOrderedAndCentred ==
    OffPole =>
        /\ ret.exc = "none"
        /\ FLess(ret.val[1], ret.val[3])
        /\ FLess(ret.val[2], ret.val[4])
        /\ FMid(ret.val[1], ret.val[3]) = Fin(Zero, R(args.lon))
        /\ FMid(ret.val[2], ret.val[4]) = Fin(Zero, R(args.lat))

C1_Witness ==
    /\ OffPole
    /\ args.lat = 53
    /\ args.lon = -180
    /\ args.m = 7
    /\ FLess(ret.val[1], Fin(Zero, R(-180)))
    /\ FLess(Fin(Zero, R(53)), ret.val[4])

\* x > 1 / k for a rational x and an integer k > 0
ExceedsInverse(x, k) == x[1] > x[2] \div k

\* C7 as claimed: at latitude +90 or -90 get_square_around_point fails with a
\* division-by-zero error.
C7_PoleRaisesZeroDivision == AtPole => ret.exc = "ZeroDivisionError"

\* C7 as amended: at latitude +90 or -90 get_square_around_point raises nothing
\* and returns four finite numbers with min_lon < max_lon and
\* min_lat < max_lat; the latitude bounds are lat -+ m / (2 * 111111) and the
\* longitude half-width is more than 10^10 degrees.
C7_PoleReturnsFiniteBox ==
    AtPole =>
        /\ ret.exc = "none"
        /\ \A k \in 1..4 : IsFinite(ret.val[k])
        /\ FLess(ret.val[1], ret.val[3])
        /\ FLess(ret.val[2], ret.val[4])
        /\ ret.val[2] = Fin(Zero, RSub(R(args.lat), Norm(args.m, 2 * m_to_deg)))
        /\ ret.val[4] = Fin(Zero, RAdd(R(args.lat), Norm(args.m, 2 * m_to_deg)))
        /\ ExceedsInverse(ret.val[3].hi, 1000000)
        /\ ret.val[1].hi = RNeg(ret.val[3].hi)

C7_Witness ==
    /\ AtPole
    /\ args.lat = -90
    /\ args.lon = 100
    /\ args.m = 50
    /\ ret.exc = "none"
    /\ ret.val[3].lo = R(100)
    /\ RLess(Zero, ret.val[3].hi)

\* C8: at latitude 0 the longitude half-width and the latitude half-width of
\* the box are both m / (2 * 111111) degrees; lon = 0, lat = 0, m = 111111
\* gives [-0.5, -0.5, 0.5, 0.5].
C8_EquatorHalfWidths ==
    (op = "get_square_around_point" /\ args.lat = 0) =>
        LET w == Norm(args.m, 2 * m_to_deg)
        IN  /\ \A k \in 1..4 : ret.val[k].inf = 0 /\ ret.val[k].hi = Zero
            /\ RSub(ret.val[3].lo, R(args.lon)) = w
            /\ RSub(R(args.lon), ret.val[1].lo) = w
            /\ RSub(ret.val[4].lo, R(0)) = w
            /\ RSub(R(0), ret.val[2].lo) = w
            /\ (args.lon = 0 /\ args.m = m_to_deg) =>
                   ret.val = <<Fin(Zero, RNeg(Half)), Fin(Zero, RNeg(Half)),
                               Fin(Zero, Half), Fin(Zero, Half)>>

C8_Witness ==
    /\ op = "get_square_around_point"
    /\ args = [lon |-> 0, lat |-> 0, m |-> 111111]
    /\ ret.val[1].lo = <<-1, 2>>
    /\ ret.val[4].lo = <<1, 2>>

NaturalSize == bbox_to_dimensions(args.fn, args.coords, args.resolution)

\* C2 as claimed: the box returned by get_bbox_of_given_size, and the box
\* returned by applying it again with the same target grid, have natural
\* dimensions equal to the target grid.
C2_ResultHasTargetDimensions ==
    op = "get_bbox_of_given_size" =>
        /\ bbox_to_dimensions(args.fn, ret, args.resolution) = args.pix
        /\ bbox_to_dimensions(args.fn,
               get_bbox_of_given_size(args.fn, ret, args.pix, args.resolution),
               args.resolution) = args.pix

\* C3: get_bbox_of_given_size returns the box unchanged when its natural
\* dimensions equal the target grid; otherwise min_lon and min_lat stay and,
\* on each axis, (new_max - min) * natural_dim = (old_max - min) * target_dim.
C3_UnchangedOrRescaled ==
    op = "get_bbox_of_given_size" =>
        /\ ret[1] = args.coords[1]
        /\ ret[2] = args.coords[2]
        /\ NaturalSize = args.pix => ret = args.coords
        /\ NaturalSize # args.pix =>
              /\ RMul(RSub(ret[3], args.coords[1]), R(NaturalSize[1]))
                   = RMul(RSub(args.coords[3], args.coords[1]), R(args.pix[1]))
              /\ RMul(RSub(ret[4], args.coords[2]), R(NaturalSize[2]))
                   = RMul(RSub(args.coords[4], args.coords[2]), R(args.pix[2]))

C3_Witness ==
    /\ op = "get_bbox_of_given_size"
    /\ NaturalSize = <<2, 3>>
    /\ args.pix = <<3, 1>>
    /\ RLess(args.coords[3], ret[3])
    /\ RLess(ret[4], args.coords[4])

LexLeq(s, t) ==
    \/ s = t
    \/ \E k \in 1..Len(s) : s[k] < t[k] /\ \A l \in 1..(k - 1) : s[l] = t[l]

\* C10 as claimed: for every date, interval >= 1 and time mode, the start of
\* the time interval built by get_request_for_saving_picture is not later than
\* its end.
C10_StartNotAfterEnd ==
    op = "get_request_for_saving_picture" =>
        LexLeq(ret.time_interval[1], ret.time_interval[2])

\* C4 as claimed: the mask returned by get_field_pixels has the shape of the
\* input image.
C4_MaskHasImageShape == op = "get_field_pixels" => ret.shape = args.img_shape

NonDegenerate(b) == b[1] < b[3] /\ b[2] < b[4]

AllPixels(v) == \A q \in DOMAIN ret.mask : ret.mask[q] = v

\* C5: with at least one row and one column, a non-degenerate bounding box and
\* a polygon that is exactly the bounding box, every entry of the mask is true.
C5_CoveringPolygonAllTrue ==
    ( /\ op = "get_field_pixels"
      /\ args.img_shape[1] >= 1
      /\ args.img_shape[2] >= 1
      /\ NonDegenerate(args.bbox)
      /\ args.field \in {CoverCCW(args.bbox), CoverCW(args.bbox)} )
    => AllPixels(TRUE)

C5_Witness ==
    /\ op = "get_field_pixels"
    /\ args.img_shape = <<3, 2>>
    /\ args.bbox = <<1, 1, 3, 5>>
    /\ args.field = CoverCW(args.bbox)
    /\ Cardinality(DOMAIN ret.mask) = 6
    /\ AllPixels(TRUE)

Sgn(x) == IF x > 0 THEN 1 ELSE IF x < 0 THEN -1 ELSE 0

Orient(a, b, c) ==
    Sgn((b[1] - a[1]) * (c[2] - a[2]) - (b[2] - a[2]) * (c[1] - a[1]))

Within(u, v, w) == (u <= w /\ w <= v) \/ (v <= w /\ w <= u)

OnSegmentInt(a, b, c) ==
    Orient(a, b, c) = 0 /\ Within(a[1], b[1], c[1]) /\ Within(a[2], b[2], c[2])

\* The closed segments ab and cd have a point in common.
SegmentsMeet(a, b, c, d) ==
    \/ Orient(a, b, c) # Orient(a, b, d) /\ Orient(c, d, a) # Orient(c, d, b)
    \/ OnSegmentInt(a, b, c)
    \/ OnSegmentInt(a, b, d)
    \/ OnSegmentInt(c, d, a)
    \/ OnSegmentInt(c, d, b)

\* The closed polygon and the closed bounding box have no point in common: no
\* edge of the polygon meets an edge of the box, no vertex lies in the box and
\* no corner of the box lies in the polygon.
WhollyOutside(field, b) ==
    LET corner == CoverCCW(b)
    IN  /\ \A k \in 1..Len(field) :
              ~(Within(b[1], b[3], field[k][1]) /\ Within(b[2], b[4], field[k][2]))
        /\ \A k \in 1..Len(field), e \in 1..4 :
              ~SegmentsMeet(field[k], EdgeEnd(field, k), corner[e], EdgeEnd(corner, e))
        /\ \A e \in 1..4 :
              LET c == <<R(corner[e][1]), R(corner[e][2])>>
              IN  ~Contains(field, c) /\ ~OnBoundary(field, c)

\* C6: with a polygon wholly outside the bounding box, every entry of the mask
\* is false.
C6_OutsidePolygonAllFalse ==
    (op = "get_field_pixels" /\ WhollyOutside(args.field, args.bbox))
    => AllPixels(FALSE)

C6_Witness ==
    /\ op = "get_field_pixels"
    /\ args.img_shape = <<3, 3, 3>>
    /\ args.bbox = <<0, 0, 4, 4>>
    /\ args.field = UShape
    /\ WhollyOutside(args.field, args.bbox)
    /\ Cardinality(DOMAIN ret.mask) = 9
    /\ AllPixels(FALSE)

\* The centre of pixel (i, j): 2 * rows * (x - min_lon) = (2i + 1) * (max_lon -
\* min_lon) and 2 * cols * (y - min_lat) = (2j + 1) * (max_lat - min_lat).
CentreOf(q) ==
    LET b == args.bbox
        rows == args.img_shape[1]
        cols == args.img_shape[2]
    IN  <<Norm(2 * rows * b[1] + (2 * q[1] + 1) * (b[3] - b[1]), 2 * rows),
          Norm(2 * cols * b[2] + (2 * q[2] + 1) * (b[4] - b[2]), 2 * cols)>>

StrictlyInBox(p, b) ==
    /\ RLess(R(b[1]), p[1])
    /\ RLess(p[1], R(b[3]))
    /\ RLess(R(b[2]), p[2])
    /\ RLess(p[2], R(b[4]))

InClosedBox(p, b) ==
    /\ RLeq(R(b[1]), p[1])
    /\ RLeq(p[1], R(b[3]))
    /\ RLeq(R(b[2]), p[2])
    /\ RLeq(p[2], R(b[4]))

MaskIsContainmentAtCentres ==
    /\ DOMAIN ret.mask = (0..(args.img_shape[1] - 1)) \X (0..(args.img_shape[2] - 1))
    /\ \A q \in DOMAIN ret.mask :
          ret.mask[q] = Contains(args.field, CentreOf(q))

\* C9 as claimed: mask[i][j] is the containment test at the centre of pixel
\* (i, j), the row index selecting the longitude and the column index the
\* latitude, and every sampled point lies strictly inside the bounding box.
C9_CentresStrictlyInside ==
    op = "get_field_pixels" =>
        /\ MaskIsContainmentAtCentres
        /\ \A q \in DOMAIN ret.mask : StrictlyInBox(CentreOf(q), args.bbox)

\* C9 as amended: mask[i][j] is the containment test at the centre of pixel
\* (i, j), the row index selecting the longitude and the column index the
\* latitude; every sampled point lies in the closed bounding box, and strictly
\* inside it when the box is non-degenerate (min < max on both axes).
C9_CentresInsideNonDegenerate ==
    op = "get_field_pixels" =>
        /\ MaskIsContainmentAtCentres
        /\ \A q \in DOMAIN ret.mask :
              /\ InClosedBox(CentreOf(q), args.bbox)
              /\ NonDegenerate(args.bbox) => StrictlyInBox(CentreOf(q), args.bbox)

C9_Witness ==
    /\ op = "get_field_pixels"
    /\ args.img_shape = <<3, 2>>
    /\ args.bbox = <<0, 0, 6, 2>>
    /\ args.field = Triangle
    /\ ret.mask[<<0, 0>>]
    /\ ~ret.mask[<<2, 0>>]
    /\ ret.mask[<<0, 1>>]
    /\ ~ret.mask[<<1, 1>>]
    /\ StrictlyInBox(CentreOf(<<2, 1>>), args.bbox)

====
